---- MODULE Spec2Model ----
(***************************************************************************)
(* A model of the reactive-cell engine of pipedream-toys.                  *)
(*                                                                         *)
(* The Reactor of the `react` crate (src/react/src/lib.rs) is modelled as  *)
(* a state machine with one action per public method.  The recursive       *)
(* evaluation ComputeCell::call / Reactor::value is a pair of mutually      *)
(* recursive operators that thread the part of the Reactor they can change *)
(* (the cached prev_val of every compute cell) and the list of callback    *)
(* invocations they cause.                                                 *)
(***************************************************************************)
EXTENDS Integers, Sequences, FiniteSets, TLC

\* ------------------------------------------------------------------ bounds

\* At most this many input cells are created.
MaxInputs == 2
\* At most this many compute cells are created.
MaxComputes == 3
\* At most this many objects (input cells, compute cells and callbacks together)
\* are created over the Reactor's lifetime.
MaxObjects == 5
\* At most this many callbacks are added over the Reactor's lifetime.
MaxCallbacks == 2
\* At most this many cells (of both kinds together) are created.
MaxCells == 4
\* set_value's `while !done` loop is followed for at most this many passes; a
\* loop that is not done by then is taken not to end.
MaxPasses == 4

\* The values of type T handed to create_input and set_value.
Values == {1, 5}

\* The compute functions handed to create_compute, by name.
\*   plus1 : |v| v[0] + 1     plus10 : |v| v[0] + 10     sum : |v| v[0] + v[1]
\*   first : |v| v[0]
Funs == {"plus1", "plus10", "sum", "first"}

\* The dependency-list lengths each function is created with.
FunArity(f) ==
    CASE f = "first" -> {1, 2}
      [] f = "sum"   -> {2}
      [] OTHER       -> {1}

\* A client builds its graph from the arithmetic functions or from the
\* selecting one, not from both.
FunFamily(f) == IF f = "first" THEN "select" ELSE "arith"

\* ------------------------------------------------------------- data model

\* Option<T>
None == [some |-> FALSE]
Some(v) == [some |-> TRUE, val |-> v]

\* CellID::Input(InputCellID(idx)) and CellID::Compute(ComputeCellID(idx)).
\* Indices are 0-based as in the source; cell idx is element idx + 1 of its Vec.
Input(idx) == [kind |-> "Input", idx |-> idx]
Compute(idx) == [kind |-> "Compute", idx |-> idx]

\* InputCell::new
InputCell_new(init) == [clients |-> {}, value |-> init]

\* ComputeCell::new
ComputeCell_new(fun, deps) ==
    [fun |-> fun, deps |-> deps, callbacks |-> {}, prev_val |-> None,
     next_cbid |-> 0, clients |-> {}]

VARIABLES
    input_cells,    \* Reactor.input_cells: Vec<InputCell<T>>
    compute_cells,  \* Reactor.compute_cells: Vec<ComputeCell<T>>
    log,            \* the callback invocations made by the last operation, in order
    last,           \* the last operation: its name, arguments and return value
    removed,        \* history: the [cell, cb] for which remove_callback returned Ok
    issued,         \* history: the handles returned so far, [cells, callbacks]
    panicked        \* the last operation did not return: it panicked (an unwrap
                    \* of None) or its loop does not end

vars == <<input_cells, compute_cells, log, last, removed, issued, panicked>>

\* ------------------------------------------------------------- evaluation

\* (self.fun)(&deps) for the functions of Funs.
Apply(fun, args) ==
    CASE fun = "first"  -> args[1]
      [] fun = "plus1"  -> args[1] + 1
      [] fun = "plus10" -> args[1] + 10
      [] fun = "sum"    -> args[1] + args[2]

\* A slip: the callbacks are invoked whether or not the value changed.
ComputeCell_settle_always(who, self, nv, st) ==
    [prev_val |-> Some(nv), wrote |-> TRUE,
     log |-> IF self.callbacks # {}
                THEN Append(st.log, [cell |-> who, cbs |-> self.callbacks, val |-> nv])
                ELSE st.log]

\* A slip: a changed value is reported and not stored.
ComputeCell_settle_nostore(who, self, nv, st) ==
    LET fire_callbacks == IF self.prev_val.some THEN nv # self.prev_val.val ELSE TRUE
    IN  [prev_val |-> IF self.prev_val.some THEN self.prev_val ELSE Some(nv),
         wrote |-> ~self.prev_val.some,
         log |-> IF fire_callbacks /\ self.callbacks # {}
                    THEN Append(st.log, [cell |-> who, cbs |-> self.callbacks, val |-> nv])
                    ELSE st.log]

\* A slip: `==` for `!=` in the comparison with the cached value.
ComputeCell_settle_inverted(who, self, nv, st) ==
    LET fire_callbacks == IF self.prev_val.some THEN nv = self.prev_val.val ELSE TRUE
    IN  [prev_val |-> IF fire_callbacks THEN Some(nv) ELSE self.prev_val,
         wrote |-> fire_callbacks,
         log |-> IF fire_callbacks /\ self.callbacks # {}
                    THEN Append(st.log, [cell |-> who, cbs |-> self.callbacks, val |-> nv])
                    ELSE st.log]

\* The part of ComputeCell::call after the dependencies were read: compare the
\* new value with prev_val, store it and invoke every callback on a change.
\* One log entry stands for the invocation of every callback of the cell, each
\* once, with the value `val` (HashMap::values() fixes no order among them).
\* `who` is the cell's index; `self` the cell; `st` the state after the reads;
\* `wrote` is whether prev_val.set was called.
ComputeCell_settle(who, self, nv, st) ==
    LET fire_callbacks == IF self.prev_val.some THEN nv # self.prev_val.val ELSE TRUE
    IN  [prev_val |-> IF fire_callbacks THEN Some(nv) ELSE self.prev_val,
         wrote |-> fire_callbacks,
         log |-> IF fire_callbacks /\ self.callbacks # {}
                    THEN Append(st.log, [cell |-> who, cbs |-> self.callbacks, val |-> nv])
                    ELSE st.log]

RECURSIVE Reactor_value(_, _), ComputeCell_deps(_, _, _), ComputeCell_call(_, _)

\* A slip: an input index past the end reads the last input cell, not None.
Reactor_value_clamped(id, st) ==
    IF id.kind = "Input"
    THEN [ret |-> IF Len(st.ic) = 0 THEN None
                  ELSE IF id.idx < Len(st.ic) THEN Some(st.ic[id.idx + 1].value)
                  ELSE Some(st.ic[Len(st.ic)].value),
          st |-> st]
    ELSE IF id.idx < Len(st.cc)
         THEN LET r == ComputeCell_call(id.idx, st)
              IN  [ret |-> Some(r.ret), st |-> r.st]
         ELSE [ret |-> None, st |-> st]

\* A slip: an input handle whose index names no input cell is looked up among
\* the compute cells.
Reactor_value_untagged(id, st) ==
    IF id.kind = "Input" /\ id.idx < Len(st.ic)
    THEN [ret |-> Some(st.ic[id.idx + 1].value), st |-> st]
    ELSE IF id.idx < Len(st.cc)
         THEN LET r == ComputeCell_call(id.idx, st)
              IN  [ret |-> Some(r.ret), st |-> r.st]
         ELSE [ret |-> None, st |-> st]

\* A slip: a compute cell is read from its cache, not re-evaluated.
Reactor_value_cached(id, st) ==
    IF id.kind = "Input"
    THEN [ret |-> IF id.idx < Len(st.ic) THEN Some(st.ic[id.idx + 1].value) ELSE None,
          st |-> st]
    ELSE IF id.idx < Len(st.cc)
         THEN [ret |-> st.cc[id.idx + 1].prev_val, st |-> st]
         ELSE [ret |-> None, st |-> st]

\* A slip: reading a compute cell computes its value and leaves the cell as it
\* is, cache and callbacks untouched.
Reactor_value_pure(id, st) ==
    IF id.kind = "Input"
    THEN [ret |-> IF id.idx < Len(st.ic) THEN Some(st.ic[id.idx + 1].value) ELSE None,
          st |-> st]
    ELSE IF id.idx < Len(st.cc)
         THEN [ret |-> Some(ComputeCell_call(id.idx, st).ret), st |-> st]
         ELSE [ret |-> None, st |-> st]

\* Reactor::value(id) on the state st = [ic, cc, log, panic]: the value read and
\* the state it leaves (a compute cell is re-evaluated by the read).
Reactor_value(id, st) ==
    IF id.kind = "Input"
    THEN [ret |-> IF id.idx < Len(st.ic) THEN Some(st.ic[id.idx + 1].value) ELSE None,
          st |-> st]
    ELSE IF id.idx < Len(st.cc)
         THEN LET r == ComputeCell_call(id.idx, st)
              IN  [ret |-> Some(r.ret), st |-> r.st]
         ELSE [ret |-> None, st |-> st]

RECURSIVE ComputeCell_deps_rev(_, _, _)
\* A slip: the values are collected in the reverse of the dependencies' order.
ComputeCell_deps_rev(deps, k, st) ==
    IF k > Len(deps) THEN [vals |-> <<>>, st |-> st]
    ELSE LET r == Reactor_value(deps[k], st)
         IN  IF ~r.ret.some \/ r.st.panic
             THEN [vals |-> <<>>, st |-> [r.st EXCEPT !.panic = TRUE]]
             ELSE LET rest == ComputeCell_deps_rev(deps, k + 1, r.st)
                  IN  [vals |-> rest.vals \o <<r.ret.val>>, st |-> rest.st]

\* self.deps.iter().map(|c| reactor.value(*c).unwrap()).collect(): the values of
\* deps[k..], read left to right. An unwrap of None panics, and a panic ends
\* the evaluation.
ComputeCell_deps(deps, k, st) ==
    IF k > Len(deps) THEN [vals |-> <<>>, st |-> st]
    ELSE LET r == Reactor_value(deps[k], st)
         IN  IF ~r.ret.some \/ r.st.panic
             THEN [vals |-> <<>>, st |-> [r.st EXCEPT !.panic = TRUE]]
             ELSE LET rest == ComputeCell_deps(deps, k + 1, r.st)
                  IN  [vals |-> <<r.ret.val>> \o rest.vals, st |-> rest.st]

RECURSIVE Upstream(_, _)
\* The compute cells the evaluation of compute cell c of cc reads: its
\* dependencies that are compute cells, and theirs.
Upstream(cc, c) ==
    LET direct == {cc[c + 1].deps[k].idx :
                        k \in {j \in 1..Len(cc[c + 1].deps) :
                                    cc[c + 1].deps[j].kind = "Compute"}}
    IN  direct \cup UNION {Upstream(cc, u) : u \in direct}

\* The value Reactor::value reads of dependency id when a compute cell is
\* taken from its cache.
CachedValue(id, st) ==
    IF id.kind = "Input" THEN st.ic[id.idx + 1].value
    ELSE st.cc[id.idx + 1].prev_val.val

\* A slip: the dependencies that are compute cells are read from their caches,
\* not re-evaluated.
ComputeCell_call_stale(idx, st) ==
    LET self == st.cc[idx + 1]
        nv == Apply(self.fun, [k \in 1..Len(self.deps) |-> CachedValue(self.deps[k], st)])
        s == ComputeCell_settle(idx, self, nv, st)
    IN  [ret |-> nv,
         st |-> [st EXCEPT !.cc[idx + 1].prev_val = s.prev_val,
                           !.log = s.log,
                           !.evald = @ \cup {idx},
                           !.yield = @ \cup {<<idx, nv>>},
                           !.written = IF s.wrote THEN @ \cup {idx} ELSE @,
                           !.rewritten = IF s.wrote /\ idx \in st.written
                                         THEN @ \cup {idx} ELSE @]]

\* ComputeCell::call for the stored cell compute_cells[idx]. The state also
\* keeps, for the operation under way, which stored cells were evaluated
\* (evald), to which values (yield, pairs of cell and value), the cells whose
\* prev_val was set (written) and set more than once (rewritten), and, for a
\* cell whose callbacks are invoked, what the cells upstream of it have cached
\* at that moment (atfire, triples of cell, upstream cell and its prev_val).
ComputeCell_call(idx, st) ==
    LET d == ComputeCell_deps(st.cc[idx + 1].deps, 1, st)
    IN  IF d.st.panic THEN [ret |-> 0, st |-> d.st]
        ELSE LET self == d.st.cc[idx + 1]
                 nv == Apply(self.fun, d.vals)
                 s == ComputeCell_settle(idx, self, nv, d.st)
             IN  [ret |-> nv,
                  st |-> [d.st EXCEPT !.cc[idx + 1].prev_val = s.prev_val,
                                      !.log = s.log,
                                      !.evald = @ \cup {idx},
                                      !.yield = @ \cup {<<idx, nv>>},
                                      !.written = IF s.wrote THEN @ \cup {idx} ELSE @,
                                      !.rewritten = IF s.wrote /\ idx \in d.st.written
                                                    THEN @ \cup {idx} ELSE @,
                                      !.atfire =
                                        IF s.log # d.st.log
                                        THEN @ \cup {<<idx, u, d.st.cc[u + 1].prev_val>> :
                                                        u \in Upstream(d.st.cc, idx)}
                                        ELSE @]]

\* ComputeCell::call for a cell that is not stored yet (create_compute calls
\* it before the push): the cell after the call, and the state.
ComputeCell_call_new(idx, cell, st) ==
    LET d == ComputeCell_deps(cell.deps, 1, st)
    IN  IF d.st.panic THEN [cell |-> cell, st |-> d.st]
        ELSE LET nv == Apply(cell.fun, d.vals)
                 s == ComputeCell_settle(idx, cell, nv, d.st)
             IN  [cell |-> [cell EXCEPT !.prev_val = s.prev_val],
                  st |-> [d.st EXCEPT !.log = s.log]]

\* The state an operation starts its evaluation from: nothing invoked yet, no
\* stored cell evaluated yet.
Start(ic, cc) ==
    [ic |-> ic, cc |-> cc, log |-> <<>>, panic |-> FALSE, evald |-> {},
     yield |-> {}, written |-> {}, rewritten |-> {}, atfire |-> {}]

\* ------------------------------------------------------------- operations

Init ==
    /\ input_cells = <<>>
    /\ compute_cells = <<>>
    /\ log = <<>>
    /\ last = [op |-> "new"]
    /\ removed = {}
    /\ issued = [cells |-> {}, callbacks |-> {}]
    /\ panicked = FALSE

\* The number of callbacks added so far, over all cells.
RECURSIVE Added(_, _)
Added(cc, k) == IF k > Len(cc) THEN 0 ELSE cc[k].next_cbid + Added(cc, k + 1)

\* The number of objects created so far.
Created == Len(input_cells) + Len(compute_cells) + Added(compute_cells, 1)

\* Reactor::create_input
create_input(initial) ==
    /\ ~panicked
    /\ Len(input_cells) < MaxInputs
    /\ Len(input_cells) + Len(compute_cells) < MaxCells
    /\ Created < MaxObjects
    /\ input_cells' = Append(input_cells, InputCell_new(initial))
    /\ log' = <<>>
    /\ last' = [op |-> "create_input", arg |-> initial, ret |-> Len(input_cells)]
    /\ issued' = [issued EXCEPT !.cells = @ \cup {Input(Len(input_cells))}]
    /\ UNCHANGED <<compute_cells, removed, panicked>>

\* The handles the operations are called with: every existing cell of the kind
\* and the first index past the end (a handle that was never handed out).
InputIdx == 0..Len(input_cells)
ComputeIdx == 0..Len(compute_cells)
Handles == {Input(i) : i \in InputIdx} \cup {Compute(i) : i \in ComputeIdx}

\* A slip: `<=` for `<` in the check of a compute dependency, which lets a
\* cell name its own index.
Exists_self(id, ic, cc) ==
    IF id.kind = "Input" THEN id.idx < Len(ic) ELSE id.idx <= Len(cc)

\* The bounds checks of create_compute's first loop, for one dependency.
Exists(id, ic, cc) ==
    IF id.kind = "Input" THEN id.idx < Len(ic) ELSE id.idx < Len(cc)

\* A slip: the error carries the last dependency that does not exist.
FirstInvalid_last(deps, ic, cc) ==
    LET bad == {k \in 1..Len(deps) : ~Exists(deps[k], ic, cc)}
    IN  IF bad = {} THEN None
        ELSE Some(deps[CHOOSE k \in bad : \A j \in bad : k >= j])

\* create_compute's first loop: the first dependency that does not exist.
FirstInvalid(deps, ic, cc) ==
    LET bad == {k \in 1..Len(deps) : ~Exists(deps[k], ic, cc)}
    IN  IF bad = {} THEN None
        ELSE Some(deps[CHOOSE k \in bad : \A j \in bad : k <= j])

\* create_compute's second loop: cid joins the clients of every dependency.
RegisterInputs(ic, deps, cid) ==
    [i \in 1..Len(ic) |->
        IF \E k \in 1..Len(deps) : deps[k] = Input(i - 1)
        THEN [ic[i] EXCEPT !.clients = @ \cup {cid}] ELSE ic[i]]

\* A slip: cid joins the clients of its input dependencies only.
RegisterComputes_skip(cc, deps, cid) == cc

RegisterComputes(cc, deps, cid) ==
    [i \in 1..Len(cc) |->
        IF \E k \in 1..Len(deps) : deps[k] = Compute(i - 1)
        THEN [cc[i] EXCEPT !.clients = @ \cup {cid}] ELSE cc[i]]

\* Reactor::create_compute
create_compute(dependencies, compute_func) ==
    /\ ~panicked
    /\ Len(compute_cells) < MaxComputes
    /\ Len(input_cells) + Len(compute_cells) < MaxCells
    /\ Created < MaxObjects
    /\ \A k \in 1..Len(compute_cells) :
          FunFamily(compute_cells[k].fun) = FunFamily(compute_func)
    /\ LET cidx == Len(compute_cells)
           inv == FirstInvalid(dependencies, input_cells, compute_cells)
       IN  IF inv.some
           THEN /\ last' = [op |-> "create_compute", deps |-> dependencies,
                            ret |-> [ok |-> FALSE, id |-> inv.val]]
                /\ log' = <<>>
                /\ UNCHANGED <<input_cells, compute_cells, issued, panicked>>
           ELSE LET ic == RegisterInputs(input_cells, dependencies, cidx)
                    cc == RegisterComputes(compute_cells, dependencies, cidx)
                IN  \E r \in {ComputeCell_call_new(
                                cidx, ComputeCell_new(compute_func, dependencies),
                                Start(ic, cc))} :
                    /\ input_cells' = r.st.ic
                    /\ compute_cells' = IF r.st.panic THEN r.st.cc
                                        ELSE Append(r.st.cc, r.cell)
                    /\ log' = r.st.log
                    /\ panicked' = r.st.panic
                    /\ last' = [op |-> "create_compute", deps |-> dependencies,
                                ret |-> [ok |-> TRUE, id |-> Compute(cidx)]]
                    /\ issued' = [issued EXCEPT !.cells = @ \cup {Compute(cidx)}]
    /\ UNCHANGED removed

\* Reactor::value
value(id) ==
    /\ ~panicked
    /\ \E r \in {Reactor_value(id, Start(input_cells, compute_cells))} :
           /\ compute_cells' = r.st.cc
           /\ log' = r.st.log
           /\ panicked' = r.st.panic
           /\ last' = [op |-> "value", id |-> id, ret |-> r.ret]
    /\ UNCHANGED <<input_cells, removed, issued>>

\* The clients of the compute cells S.
ClientsOf(cc, S) == UNION {cc[c + 1].clients : c \in S}

\* A slip: clients1 takes clients2 itself, not the clients of its cells.
set_value_pass_shallow(cc, clients1, clients2) ==
    LET c2 == clients2 \cup clients1 \cup ClientsOf(cc, clients1)
        c1 == clients1 \cup c2
    IN  [clients1 |-> c1, clients2 |-> c2, done |-> c1 = c2]

\* A slip: clients2 takes the clients of clients1's cells, not the cells.
set_value_pass_noinsert(cc, clients1, clients2) ==
    LET c2 == clients2 \cup ClientsOf(cc, clients1)
        c1 == clients1 \cup ClientsOf(cc, c2)
    IN  [clients1 |-> c1, clients2 |-> c2, done |-> c1 = c2]

\* One pass of the body of set_value's `while !done` loop: clients2 takes
\* clients1 and the clients of its cells, clients1 takes the clients of
\* clients2's cells, and done is whether the two sets are equal.
set_value_pass(cc, clients1, clients2) ==
    LET c2 == clients2 \cup clients1 \cup ClientsOf(cc, clients1)
        c1 == clients1 \cup ClientsOf(cc, c2)
    IN  [clients1 |-> c1, clients2 |-> c2, done |-> c1 = c2]

\* A slip: only the input's direct clients, no closure.
set_value_clients_direct(cc, clients1, clients2, passes) ==
    [clients1 |-> clients1, done |-> TRUE, passes |-> 0]

RECURSIVE set_value_clients(_, _, _, _)
\* set_value's `while !done` loop after `passes` passes: clients1 when the loop
\* is left, the passes it made, and whether it was left at all.
set_value_clients(cc, clients1, clients2, passes) ==
    LET p == set_value_pass(cc, clients1, clients2)
    IN  IF p.done \/ passes + 1 >= MaxPasses
        THEN [clients1 |-> p.clients1, done |-> p.done, passes |-> passes + 1]
        ELSE set_value_clients(cc, p.clients1, p.clients2, passes + 1)

\* The orders a HashSet may be iterated in.
Orders(S) ==
    {o \in [1..Cardinality(S) -> S] : \A i, j \in 1..Cardinality(S) : o[i] = o[j] => i = j}

\* A slip: the clients are left to be re-evaluated by the next read.
set_value_calls_lazy(order, k, st) == st

RECURSIVE set_value_calls(_, _, _)
\* set_value's last loop: cell.call(&self) for every client, in the order given.
set_value_calls(order, k, st) ==
    IF k > Len(order) \/ st.panic THEN st
    ELSE set_value_calls(order, k + 1, ComputeCell_call(order[k], st).st)

\* A slip: the last input cell is taken for a nonexistent one.
set_value_exists_short(idx) == idx + 1 < Len(input_cells)

\* set_value: `idx < self.input_cells.len()`.
set_value_exists(idx) == idx < Len(input_cells)

\* A slip (the comment on set_value's last line): false for an unchanged value.
set_value_unchanged_false(idx, new_value) ==
    /\ last' = [op |-> "set_value", id |-> idx, arg |-> new_value,
                old |-> Some(input_cells[idx + 1].value), ret |-> FALSE]
    /\ log' = <<>>
    /\ UNCHANGED <<input_cells, compute_cells, panicked>>

\* set_value when old_value == new_value: return true at once.
set_value_unchanged(idx, new_value) ==
    /\ last' = [op |-> "set_value", id |-> idx, arg |-> new_value,
                old |-> Some(input_cells[idx + 1].value), ret |-> TRUE]
    /\ log' = <<>>
    /\ UNCHANGED <<input_cells, compute_cells, panicked>>

\* set_value when the value changes: store it, collect the clients, call them.
\* `last` also keeps the set the loop converged on, the passes it took and what
\* the evaluation kept about the stored cells it evaluated.
set_value_changed(idx, new_value) ==
    LET ic == [input_cells EXCEPT ![idx + 1].value = new_value]
        loop == set_value_clients(compute_cells, input_cells[idx + 1].clients, {}, 0)
    IN  IF loop.done
        THEN \E order \in Orders(loop.clients1) :
                \E st \in {set_value_calls(order, 1, Start(ic, compute_cells))} :
                    /\ input_cells' = st.ic
                    /\ compute_cells' = st.cc
                    /\ log' = st.log
                    /\ panicked' = st.panic
                    /\ last' = [op |-> "set_value", id |-> idx, arg |-> new_value,
                                old |-> Some(input_cells[idx + 1].value),
                                ret |-> TRUE, done |-> TRUE,
                                passes |-> loop.passes, clients |-> loop.clients1,
                                evaluated |-> st.evald, yielded |-> st.yield,
                                written |-> st.written,
                                rewritten |-> st.rewritten, atfire |-> st.atfire]
        ELSE /\ input_cells' = ic
             /\ panicked' = TRUE
             /\ log' = <<>>
             /\ last' = [op |-> "set_value", id |-> idx, arg |-> new_value,
                         old |-> Some(input_cells[idx + 1].value),
                         ret |-> TRUE, done |-> FALSE,
                         passes |-> loop.passes, clients |-> loop.clients1,
                         evaluated |-> {}, yielded |-> {},
                         written |-> {}, rewritten |-> {}, atfire |-> {}]
             /\ UNCHANGED compute_cells

\* set_value when the cell does not exist.
set_value_missing(idx, new_value) ==
    /\ last' = [op |-> "set_value", id |-> idx, arg |-> new_value,
                old |-> None, ret |-> FALSE]
    /\ log' = <<>>
    /\ UNCHANGED <<input_cells, compute_cells, panicked>>

\* Reactor::set_value
set_value(idx, new_value) ==
    /\ ~panicked
    /\ IF set_value_exists(idx)
       THEN IF input_cells[idx + 1].value = new_value
            THEN set_value_unchanged(idx, new_value)
            ELSE set_value_changed(idx, new_value)
       ELSE set_value_missing(idx, new_value)
    /\ UNCHANGED <<removed, issued>>

\* A slip: the handle is the number of callbacks the cell holds.
add_callback_cidx_len(cell) == Cardinality(cell.callbacks)

\* add_callback: `let cidx = self.compute_cells[idx].next_cbid.to_owned()`.
add_callback_cidx(cell) == cell.next_cbid

\* Reactor::add_callback
add_callback(idx) ==
    /\ ~panicked
    /\ IF idx >= Len(compute_cells)
       THEN /\ last' = [op |-> "add_callback", id |-> idx, ret |-> None]
            /\ UNCHANGED <<compute_cells, issued>>
       ELSE /\ Added(compute_cells, 1) < MaxCallbacks
            /\ Created < MaxObjects
            /\ LET cidx == add_callback_cidx(compute_cells[idx + 1])
               IN  /\ compute_cells' =
                        [compute_cells EXCEPT ![idx + 1].next_cbid = @ + 1,
                                              ![idx + 1].callbacks = @ \cup {cidx}]
                   /\ last' = [op |-> "add_callback", id |-> idx, ret |-> Some(cidx)]
                   /\ issued' = [issued EXCEPT !.callbacks =
                                    @ \cup {[cell |-> idx, cb |-> cidx]}]
    /\ log' = <<>>
    /\ UNCHANGED <<input_cells, removed, panicked>>

\* The callback handles remove_callback is called with: those the cell has
\* handed out and the next one, which it has not.
CallbackIds(c) ==
    IF c < Len(compute_cells) THEN 0..compute_cells[c + 1].next_cbid ELSE 0..1

\* A slip: any handle is taken for a registered one.
HashMap_remove_any(callbacks, callback) ==
    [map |-> callbacks \ {callback}, is_some |-> TRUE]

\* A slip: the callback is looked up and left in the map.
HashMap_remove_keep(callbacks, callback) ==
    [map |-> callbacks, is_some |-> callback \in callbacks]

\* compute_cell.callbacks.remove(&callback).is_some()
HashMap_remove(callbacks, callback) ==
    [map |-> callbacks \ {callback}, is_some |-> callback \in callbacks]

\* Reactor::remove_callback
remove_callback(cell, callback) ==
    /\ ~panicked
    /\ IF cell < Len(compute_cells)
       THEN LET r == HashMap_remove(compute_cells[cell + 1].callbacks, callback)
            IN  /\ compute_cells' = [compute_cells EXCEPT ![cell + 1].callbacks = r.map]
                /\ IF r.is_some
                   THEN /\ last' = [op |-> "remove_callback", id |-> cell,
                                    cb |-> callback, ret |-> "Ok"]
                        /\ removed' = removed \cup {[cell |-> cell, cb |-> callback]}
                   ELSE /\ last' = [op |-> "remove_callback", id |-> cell,
                                    cb |-> callback, ret |-> "NonexistentCallback"]
                        /\ UNCHANGED removed
       ELSE /\ last' = [op |-> "remove_callback", id |-> cell, cb |-> callback,
                        ret |-> "NonexistentCell"]
            /\ UNCHANGED <<compute_cells, removed>>
    /\ log' = <<>>
    /\ UNCHANGED <<input_cells, issued, panicked>>

Next ==
    \/ \E v \in Values : create_input(v)
    \/ \E f \in Funs : \E n \in FunArity(f) : \E deps \in [1..n -> Handles] :
          create_compute(deps, f)
    \/ \E id \in Handles : value(id)
    \/ \E i \in InputIdx : \E v \in Values : set_value(i, v)
    \/ \E c \in ComputeIdx : add_callback(c)
    \/ \E c \in ComputeIdx : \E h \in CallbackIds(c) : remove_callback(c, h)

Spec == Init /\ [][Next]_vars

\* ------------------------------------------- the Reactor of the root crate
\*
\* src/src/lib.rs is an earlier Reactor with the same interface.  Its input
\* cells keep `downstreams` (only compute cells that list the input itself),
\* its callbacks are a Vec, and its remove_callback is not implemented.  It is
\* modelled over the same variables; `removed` and `issued` are not used.

\* InputCell::new
root_InputCell_new(init) == [downstreams |-> {}, value |-> init]

\* ComputeCell::new. The Vec of callbacks is the set of its indices: the
\* callback at position k is the one add_callback named CallbackID(k).
root_ComputeCell_new(fun, deps) ==
    [fun |-> fun, deps |-> deps, callbacks |-> {}, prev_val |-> None]

\* The part of ComputeCell::call after the dependencies were read.
root_ComputeCell_settle(who, self, nv, st) ==
    LET fire_callbacks == IF self.prev_val.some THEN nv # self.prev_val.val ELSE TRUE
    IN  [prev_val |-> IF fire_callbacks THEN Some(nv) ELSE self.prev_val,
         log |-> IF fire_callbacks /\ self.callbacks # {}
                    THEN Append(st.log, [cell |-> who, cbs |-> self.callbacks, val |-> nv])
                    ELSE st.log]

RECURSIVE root_Reactor_value(_, _), root_ComputeCell_deps(_, _, _),
          root_ComputeCell_call(_, _)

\* Reactor::value
root_Reactor_value(id, st) ==
    IF id.kind = "Input"
    THEN [ret |-> IF id.idx < Len(st.ic) THEN Some(st.ic[id.idx + 1].value) ELSE None,
          st |-> st]
    ELSE IF id.idx < Len(st.cc)
         THEN LET r == root_ComputeCell_call(id.idx, st)
              IN  [ret |-> Some(r.ret), st |-> r.st]
         ELSE [ret |-> None, st |-> st]

\* self.deps.iter().map(|c| reactor.value(*c).unwrap()).collect()
root_ComputeCell_deps(deps, k, st) ==
    IF k > Len(deps) THEN [vals |-> <<>>, st |-> st]
    ELSE LET r == root_Reactor_value(deps[k], st)
         IN  IF ~r.ret.some \/ r.st.panic
             THEN [vals |-> <<>>, st |-> [r.st EXCEPT !.panic = TRUE]]
             ELSE LET rest == root_ComputeCell_deps(deps, k + 1, r.st)
                  IN  [vals |-> <<r.ret.val>> \o rest.vals, st |-> rest.st]

\* ComputeCell::call for the stored cell compute_cells[idx].
root_ComputeCell_call(idx, st) ==
    LET d == root_ComputeCell_deps(st.cc[idx + 1].deps, 1, st)
    IN  IF d.st.panic THEN [ret |-> 0, st |-> d.st]
        ELSE LET self == d.st.cc[idx + 1]
                 nv == Apply(self.fun, d.vals)
                 s == root_ComputeCell_settle(idx, self, nv, d.st)
             IN  [ret |-> nv,
                  st |-> [d.st EXCEPT !.cc[idx + 1].prev_val = s.prev_val,
                                      !.log = s.log]]

\* ComputeCell::call for the cell create_compute has not pushed yet.
root_ComputeCell_call_new(idx, cell, st) ==
    LET d == root_ComputeCell_deps(cell.deps, 1, st)
    IN  IF d.st.panic THEN [cell |-> cell, st |-> d.st]
        ELSE LET nv == Apply(cell.fun, d.vals)
                 s == root_ComputeCell_settle(idx, cell, nv, d.st)
             IN  [cell |-> [cell EXCEPT !.prev_val = s.prev_val],
                  st |-> [d.st EXCEPT !.log = s.log]]

\* The number of callbacks added so far, over all cells.
RECURSIVE root_Added(_, _)
root_Added(cc, k) ==
    IF k > Len(cc) THEN 0 ELSE Cardinality(cc[k].callbacks) + root_Added(cc, k + 1)

\* The number of objects created so far.
root_Created == Len(input_cells) + Len(compute_cells) + root_Added(compute_cells, 1)

\* Reactor::create_input
root_create_input(initial) ==
    /\ ~panicked
    /\ Len(input_cells) < MaxInputs
    /\ Len(input_cells) + Len(compute_cells) < MaxCells
    /\ root_Created < MaxObjects
    /\ input_cells' = Append(input_cells, root_InputCell_new(initial))
    /\ log' = <<>>
    /\ last' = [op |-> "create_input", arg |-> initial, ret |-> Len(input_cells)]
    /\ UNCHANGED <<compute_cells, removed, issued, panicked>>

\* create_compute's first loop: the first dependency that does not exist.
root_FirstInvalid(deps, ic, cc) ==
    LET bad == {k \in 1..Len(deps) :
                    IF deps[k].kind = "Input" THEN ~(deps[k].idx < Len(ic))
                    ELSE ~(deps[k].idx < Len(cc))}
    IN  IF bad = {} THEN None
        ELSE Some(deps[CHOOSE k \in bad : \A j \in bad : k <= j])

\* create_compute's second loop: cid joins the downstreams of the input cells
\* among the dependencies, and of them only.
root_RegisterInputs(ic, deps, cid) ==
    [i \in 1..Len(ic) |->
        IF \E k \in 1..Len(deps) : deps[k] = Input(i - 1)
        THEN [ic[i] EXCEPT !.downstreams = @ \cup {Compute(cid)}] ELSE ic[i]]

\* Reactor::create_compute
root_create_compute(dependencies, compute_func) ==
    /\ ~panicked
    /\ Len(compute_cells) < MaxComputes
    /\ Len(input_cells) + Len(compute_cells) < MaxCells
    /\ root_Created < MaxObjects
    /\ \A k \in 1..Len(compute_cells) :
          FunFamily(compute_cells[k].fun) = FunFamily(compute_func)
    /\ LET cidx == Len(compute_cells)
           inv == root_FirstInvalid(dependencies, input_cells, compute_cells)
       IN  IF inv.some
           THEN /\ last' = [op |-> "create_compute", deps |-> dependencies,
                            ret |-> [ok |-> FALSE, id |-> inv.val]]
                /\ log' = <<>>
                /\ UNCHANGED <<input_cells, compute_cells, panicked>>
           ELSE LET ic == root_RegisterInputs(input_cells, dependencies, cidx)
                IN  \E r \in {root_ComputeCell_call_new(
                                cidx, root_ComputeCell_new(compute_func, dependencies),
                                Start(ic, compute_cells))} :
                    /\ input_cells' = r.st.ic
                    /\ compute_cells' = IF r.st.panic THEN r.st.cc
                                        ELSE Append(r.st.cc, r.cell)
                    /\ log' = r.st.log
                    /\ panicked' = r.st.panic
                    /\ last' = [op |-> "create_compute", deps |-> dependencies,
                                ret |-> [ok |-> TRUE, id |-> Compute(cidx)]]
    /\ UNCHANGED <<removed, issued>>

\* Reactor::value
root_value(id) ==
    /\ ~panicked
    /\ \E r \in {root_Reactor_value(id, Start(input_cells, compute_cells))} :
           /\ compute_cells' = r.st.cc
           /\ log' = r.st.log
           /\ panicked' = r.st.panic
           /\ last' = [op |-> "value", id |-> id, ret |-> r.ret]
    /\ UNCHANGED <<input_cells, removed, issued>>

RECURSIVE root_set_value_calls(_, _, _)
\* set_value's loop: cell.call(&self) for every downstream that is a compute
\* cell, in the order the HashSet is iterated in.
root_set_value_calls(order, k, st) ==
    IF k > Len(order) \/ st.panic THEN st
    ELSE root_set_value_calls(
            order, k + 1,
            IF order[k].kind = "Compute"
            THEN root_ComputeCell_call(order[k].idx, st).st ELSE st)

\* Reactor::set_value
root_set_value(idx, new_value) ==
    /\ ~panicked
    /\ IF idx < Len(input_cells)
       THEN LET old_value == input_cells[idx + 1].value
            IN  IF old_value = new_value
                THEN /\ last' = [op |-> "set_value", id |-> idx, arg |-> new_value,
                                 old |-> Some(old_value), ret |-> TRUE]
                     /\ log' = <<>>
                     /\ UNCHANGED <<input_cells, compute_cells, panicked>>
                ELSE \E order \in Orders(input_cells[idx + 1].downstreams) :
                        LET ic == [input_cells EXCEPT ![idx + 1].value = new_value]
                        IN  \E st \in {root_set_value_calls(
                                            order, 1, Start(ic, compute_cells))} :
                            /\ input_cells' = st.ic
                            /\ compute_cells' = st.cc
                            /\ log' = st.log
                            /\ panicked' = st.panic
                            /\ last' = [op |-> "set_value", id |-> idx,
                                        arg |-> new_value,
                                        old |-> Some(old_value), ret |-> TRUE]
       ELSE /\ last' = [op |-> "set_value", id |-> idx, arg |-> new_value,
                        old |-> None, ret |-> FALSE]
            /\ log' = <<>>
            /\ UNCHANGED <<input_cells, compute_cells, panicked>>
    /\ UNCHANGED <<removed, issued>>

\* Reactor::add_callback
root_add_callback(idx) ==
    /\ ~panicked
    /\ IF ~(idx < Len(compute_cells))
       THEN /\ last' = [op |-> "add_callback", id |-> idx, ret |-> None]
            /\ UNCHANGED compute_cells
       ELSE /\ root_Added(compute_cells, 1) < MaxCallbacks
            /\ root_Created < MaxObjects
            /\ LET cidx == Cardinality(compute_cells[idx + 1].callbacks)
               IN  /\ compute_cells' =
                        [compute_cells EXCEPT ![idx + 1].callbacks = @ \cup {cidx}]
                   /\ last' = [op |-> "add_callback", id |-> idx, ret |-> Some(cidx)]
    /\ log' = <<>>
    /\ UNCHANGED <<input_cells, removed, issued, panicked>>

\* The callback handles remove_callback is called with: those the cell has
\* handed out and the next one.
root_CallbackIds(c) ==
    IF c < Len(compute_cells) THEN 0..Cardinality(compute_cells[c + 1].callbacks)
    ELSE 0..1

\* Reactor::remove_callback: unimplemented!() panics, whatever the arguments.
root_remove_callback(cell, callback) ==
    /\ ~panicked
    /\ panicked' = TRUE
    /\ last' = [op |-> "remove_callback", id |-> cell, cb |-> callback,
                ret |-> "panic"]
    /\ log' = <<>>
    /\ UNCHANGED <<input_cells, compute_cells, removed, issued>>

root_Next ==
    \/ \E v \in Values : root_create_input(v)
    \/ \E f \in Funs : \E n \in FunArity(f) : \E deps \in [1..n -> Handles] :
          root_create_compute(deps, f)
    \/ \E id \in Handles : root_value(id)
    \/ \E i \in InputIdx : \E v \in Values : root_set_value(i, v)
    \/ \E c \in ComputeIdx : root_add_callback(c)
    \/ \E c \in ComputeIdx : \E h \in root_CallbackIds(c) : root_remove_callback(c, h)

SpecRoot == Init /\ [][root_Next]_vars

\* ----------------------------------------------------------------- claims

\* What value(Compute(c)) returns in the Reactor (ic, cc).
CellValue(c, ic, cc) == Reactor_value(Compute(c), Start(ic, cc)).ret.val

\* What value(id) returns in the Reactor (ic, cc), for an existing cell.
ValueOf(id, ic, cc) == Reactor_value(id, Start(ic, cc)).ret.val

\* How often the invocations L invoke callback h of compute cell c, and the
\* arguments they pass it.
Fired(L, c, h) == Cardinality({k \in DOMAIN L : L[k].cell = c /\ h \in L[k].cbs})
FiredWith(L, c, h) == {L[k].val : k \in {j \in DOMAIN L : L[j].cell = c /\ h \in L[j].cbs}}

\* The last operation was a set_value that changed its input.
Changed == last.op = "set_value" /\ last.old.some /\ last.old.val # last.arg

\* The compute cells that transitively depend on input cell i.
Downstream(i) ==
    set_value_clients(compute_cells, input_cells[i + 1].clients, {}, 0).clients1

\* C1: a set_value call invokes every callback registered on a compute cell
\* whose value the call changed exactly once, with the cell's final value,
\* whatever the order the affected cells are visited in.
C1_ChangedFiresOnce ==
    [][last'.op = "set_value" =>
        \A c \in 0..(Len(compute_cells) - 1) :
            CellValue(c, input_cells', compute_cells')
                    # CellValue(c, input_cells, compute_cells)
            => \A h \in compute_cells[c + 1].callbacks :
                /\ Fired(log', c, h) = 1
                /\ FiredWith(log', c, h) = {CellValue(c, input_cells', compute_cells')}]_vars

\* The diamond A=1, B=A+1, C=A+10, D=B+C after set_value(A,5): the callback
\* on D was invoked once, with 21.
C1_Witness ==
    /\ Changed /\ last.id = 0 /\ last.old.val = 1 /\ last.arg = 5
    /\ Len(compute_cells) = 3
    /\ compute_cells[1].fun = "plus1" /\ compute_cells[1].deps = <<Input(0)>>
    /\ compute_cells[2].fun = "plus10" /\ compute_cells[2].deps = <<Input(0)>>
    /\ compute_cells[3].fun = "sum"
    /\ compute_cells[3].deps = <<Compute(0), Compute(1)>>
    /\ compute_cells[3].callbacks = {0}
    /\ Fired(log, 2, 0) = 1
    /\ FiredWith(log, 2, 0) = {21}

\* C2: a set_value call invokes no callback of a compute cell whose value is
\* the same after the call as before it.
C2_UnchangedFiresNone ==
    [][last'.op = "set_value" =>
        \A c \in 0..(Len(compute_cells) - 1) :
            CellValue(c, input_cells', compute_cells')
                    = CellValue(c, input_cells, compute_cells)
            => \A k \in DOMAIN log' : log'[k].cell # c]_vars

\* The input changed, a cell downstream of it with a callback kept its value,
\* and the callback was not invoked.
C2_Witness ==
    /\ Changed
    /\ \E c \in Downstream(last.id) :
        /\ compute_cells[c + 1].callbacks # {}
        /\ \A k \in DOMAIN log : log[k].cell # c

\* C3: value(C) of a compute cell is its function applied to the current
\* value() of its dependencies, in the order they were given.
C3_ValueIsFunOfDeps ==
    [][(/\ last'.op = "value"
        /\ last'.id.kind = "Compute"
        /\ last'.id.idx < Len(compute_cells))
       => LET cell == compute_cells'[last'.id.idx + 1]
              vals == [k \in 1..Len(cell.deps) |->
                          ValueOf(cell.deps[k], input_cells', compute_cells')]
          IN  last'.ret = Some(Apply(cell.fun, vals))]_vars

\* value() was read of a cell that selects the first of two dependencies
\* whose values differ.
C3_Witness ==
    /\ last.op = "value" /\ last.id.kind = "Compute"
    /\ last.id.idx < Len(compute_cells)
    /\ LET cell == compute_cells[last.id.idx + 1]
       IN  /\ cell.fun = "first" /\ Len(cell.deps) = 2
           /\ ValueOf(cell.deps[1], input_cells, compute_cells)
                # ValueOf(cell.deps[2], input_cells, compute_cells)
           /\ last.ret = Some(ValueOf(cell.deps[1], input_cells, compute_cells))

\* C4: after every operation every stored compute cell has a cached value, and
\* it is the cell's function applied to the current values of its dependencies.
C4_CacheIsCurrent ==
    \A c \in 1..Len(compute_cells) :
        LET cell == compute_cells[c]
            vals == [k \in 1..Len(cell.deps) |->
                        ValueOf(cell.deps[k], input_cells, compute_cells)]
        IN  cell.prev_val = Some(Apply(cell.fun, vals))

\* A set_value changed an input with a compute cell two steps downstream.
C4_Witness ==
    /\ Changed
    /\ \E c \in Downstream(last.id) :
        /\ \E k \in 1..Len(compute_cells[c + 1].deps) :
                compute_cells[c + 1].deps[k].kind = "Compute"
        /\ \A k \in 1..Len(compute_cells[c + 1].deps) :
                compute_cells[c + 1].deps[k] # Input(last.id)

\* C5: a value() read and a create_compute call invoke no callback.
C5_ReadsFireNone ==
    [][last'.op \in {"value", "create_compute"} => log' = <<>>]_vars

\* value() was read of a compute cell that has a callback and depends on
\* another compute cell.
C5_Witness ==
    /\ last.op = "value" /\ last.id.kind = "Compute"
    /\ last.id.idx < Len(compute_cells)
    /\ compute_cells[last.id.idx + 1].callbacks # {}
    /\ compute_cells[last.id.idx + 1].deps[1].kind = "Compute"
    /\ log = <<>>

C8_InvalidDependency ==
    [][(/\ last'.op = "create_compute"
        /\ \E k \in 1..Len(last'.deps) :
                ~Exists(last'.deps[k], input_cells, compute_cells))
       => /\ ~last'.ret.ok
          /\ \E k \in 1..Len(last'.deps) :
                /\ last'.ret.id = last'.deps[k]
                /\ ~Exists(last'.deps[k], input_cells, compute_cells)
                /\ \A j \in 1..(k - 1) :
                        Exists(last'.deps[j], input_cells, compute_cells)
          /\ input_cells' = input_cells
          /\ compute_cells' = compute_cells
          /\ log' = <<>>
          /\ ~panicked']_vars

\* create_compute was called with two different nonexistent dependencies and
\* returned the first.
C8_Witness ==
    /\ last.op = "create_compute" /\ ~last.ret.ok
    /\ Len(last.deps) = 2
    /\ ~Exists(last.deps[1], input_cells, compute_cells)
    /\ ~Exists(last.deps[2], input_cells, compute_cells)
    /\ last.deps[1] # last.deps[2]
    /\ last.ret.id = last.deps[1]
    /\ Len(compute_cells) >= 1

\* C9: remove_callback returns NonexistentCell for a cell out of range,
\* NonexistentCallback for an existing cell without that callback, and
\* otherwise Ok, removing that callback and nothing else.
C9_RemoveCallbackResult ==
    [][last'.op = "remove_callback" =>
        LET c == last'.id
            h == last'.cb
        IN  /\ c >= Len(compute_cells) =>
                /\ last'.ret = "NonexistentCell"
                /\ compute_cells' = compute_cells
            /\ (c < Len(compute_cells) /\ h \notin compute_cells[c + 1].callbacks) =>
                /\ last'.ret = "NonexistentCallback"
                /\ compute_cells' = compute_cells
            /\ (c < Len(compute_cells) /\ h \in compute_cells[c + 1].callbacks) =>
                /\ last'.ret = "Ok"
                /\ compute_cells' =
                    [compute_cells EXCEPT ![c + 1].callbacks = @ \ {h}]
            /\ input_cells' = input_cells]_vars

\* A callback was removed a second time, from a cell that still has another
\* callback: NonexistentCallback.
C9_Witness ==
    /\ last.op = "remove_callback" /\ last.ret = "NonexistentCallback"
    /\ last.id < Len(compute_cells)
    /\ [cell |-> last.id, cb |-> last.cb] \in removed
    /\ compute_cells[last.id + 1].callbacks # {}

\* C10: a callback whose removal returned Ok is not invoked by any later
\* operation, and the callbacks still registered on its cell are invoked once
\* by every set_value that changes the cell's value.
C10_RemovedNeverFires ==
    [][/\ \A r \in removed' : Fired(log', r.cell, r.cb) = 0
       /\ last'.op = "set_value" =>
            \A r \in removed :
                CellValue(r.cell, input_cells', compute_cells')
                        # CellValue(r.cell, input_cells, compute_cells)
                => \A h \in compute_cells[r.cell + 1].callbacks :
                        Fired(log', r.cell, h) = 1]_vars

\* A set_value changed a cell from which one callback was removed: the other
\* was invoked, the removed one was not.
C10_Witness ==
    /\ Changed
    /\ \E r \in removed :
        /\ compute_cells[r.cell + 1].callbacks # {}
        /\ \E k \in DOMAIN log : log[k].cell = r.cell
        /\ Fired(log, r.cell, r.cb) = 0

\* C11: add_callback on an existing compute cell returns a handle greater than
\* every handle returned for that cell before, also when the callbacks that
\* held them were removed, and registers the callback under it; a handle whose
\* callback was removed removes nothing afterwards; add_callback on a compute
\* handle out of range returns None and registers nothing.
C11_HandlesAreFresh ==
    [][/\ last'.op = "add_callback" =>
            IF last'.id < Len(compute_cells)
            THEN /\ last'.ret.some
                 /\ \A r \in issued.callbacks :
                        r.cell = last'.id => last'.ret.val > r.cb
                 /\ compute_cells'[last'.id + 1].callbacks =
                        compute_cells[last'.id + 1].callbacks \cup {last'.ret.val}
            ELSE /\ last'.ret = None
                 /\ compute_cells' = compute_cells
       /\ (/\ last'.op = "remove_callback"
           /\ [cell |-> last'.id, cb |-> last'.cb] \in removed)
          => /\ last'.ret = "NonexistentCallback"
             /\ compute_cells' = compute_cells]_vars

\* A cell's first callback was removed and add_callback returned 1, not 0.
C11_Witness ==
    /\ last.op = "add_callback" /\ last.ret = Some(1)
    /\ [cell |-> last.id, cb |-> 0] \in removed
    /\ compute_cells[last.id + 1].callbacks = {1}

\* The handles of one kind among the cell handles H.
OfKind(H, kind) == {h \in H : h.kind = kind}

\* C12: value(h) returns None exactly when h was never returned by
\* create_input or by a successful create_compute; after every operation every
\* handle returned so far reads a value and no other handle does (so a failed
\* create_compute makes no handle valid); the handles of a kind are the indices
\* 0, 1, 2, ... in the order of creation.
C12_ValueNoneIffNeverCreated ==
    [][/\ last'.op = "value" => (last'.ret = None <=> last'.id \notin issued.cells)
       /\ last'.op = "create_input" =>
            last'.ret = Cardinality(OfKind(issued.cells, "Input"))
       /\ (last'.op = "create_compute" /\ last'.ret.ok) =>
            last'.ret.id = Compute(Cardinality(OfKind(issued.cells, "Compute")))
       /\ (last'.op = "create_compute" /\ ~last'.ret.ok) =>
            \A h \in Handles' \ issued.cells :
                Reactor_value(h, Start(input_cells', compute_cells')).ret = None
       /\ \A h \in issued.cells :
            Reactor_value(h, Start(input_cells', compute_cells')).ret.some]_vars

\* value() returned None for the compute handle past the last compute cell of
\* a Reactor with two inputs and a compute cell.
C12_Witness ==
    /\ last.op = "value" /\ last.ret = None
    /\ last.id = Compute(Len(compute_cells))
    /\ Len(compute_cells) = 1 /\ Len(input_cells) = 2

\* What value(Compute(c)) returns in the root crate's Reactor (ic, cc).
root_CellValue(c, ic, cc) == root_Reactor_value(Compute(c), Start(ic, cc)).ret.val

\* C13: in the root crate's Reactor a set_value call invokes each callback of
\* a compute cell exactly once if the cell's value changed as a result of the
\* call and not at all otherwise, also for a cell whose dependencies are all
\* compute cells, and a value() read invokes no callback.
C13_RootFiresOncePerChange ==
    [][/\ last'.op = "set_value" =>
            \A c \in 0..(Len(compute_cells) - 1) :
                \A h \in compute_cells[c + 1].callbacks :
                    Fired(log', c, h) =
                        IF root_CellValue(c, input_cells', compute_cells')
                                # root_CellValue(c, input_cells, compute_cells)
                        THEN 1 ELSE 0
       /\ last'.op = "value" => log' = <<>>]_vars

\* C14: the root crate's remove_callback never aborts: it returns an Err when
\* the cell or the callback does not exist and Ok otherwise, and the callback
\* it removed is registered no longer.
C14_RootRemoveCallbackReturns ==
    [][last'.op = "remove_callback" =>
        /\ ~panicked'
        /\ IF /\ last'.id < Len(compute_cells)
              /\ last'.cb \in compute_cells[last'.id + 1].callbacks
           THEN /\ last'.ret = "Ok"
                /\ last'.cb \notin compute_cells'[last'.id + 1].callbacks
           ELSE last'.ret \in {"NonexistentCell", "NonexistentCallback"}]_vars

RECURSIVE Reachable(_, _)
\* The compute cells reached from the cells S through clients edges, S included.
Reachable(cc, S) ==
    LET T == S \cup UNION {cc[c + 1].clients : c \in S}
    IN  IF T = S THEN S ELSE Reachable(cc, T)

\* C16: when set_value changes an input, the set its clients1/clients2 loop
\* converges on is the set of compute cells reachable from the input through
\* one or more clients edges, no more and no less, and every cell of the set is
\* evaluated in the pass.
C16_FixpointIsClosure ==
    [][(/\ last'.op = "set_value"
        /\ last'.old.some /\ last'.old.val # last'.arg)
       => /\ last'.clients =
                Reachable(compute_cells, input_cells[last'.id + 1].clients)
          /\ last'.clients \subseteq last'.evaluated]_vars

\* set_value changed the input of the chain A -> B -> C -> D: the loop
\* converged on {B, C, D} and D, three edges away, was evaluated.
C16_Witness ==
    /\ Changed /\ last.id = 0
    /\ Len(compute_cells) = 3
    /\ compute_cells[1].deps = <<Input(0)>>
    /\ compute_cells[2].deps = <<Compute(0)>>
    /\ compute_cells[3].deps = <<Compute(1)>>
    /\ last.clients = {0, 1, 2}
    /\ 2 \in last.evaluated

\* C17: set_value's `while !done` loop is left after finitely many passes (at
\* most one more than the number of cells it converges on) for every graph the
\* interface builds, so a set_value call that changes an input returns.
C17_LoopTerminates ==
    [][(/\ last'.op = "set_value"
        /\ last'.old.some /\ last'.old.val # last'.arg)
       => /\ last'.done
          /\ last'.passes <= Cardinality(last'.clients) + 1
          /\ last'.ret = TRUE
          /\ ~panicked']_vars

\* set_value changed the input of a chain three compute cells deep: the loop
\* needed a second pass, was left after it, and set_value returned true.
C17_Witness ==
    /\ Changed /\ last.done /\ last.ret = TRUE
    /\ last.passes = 2
    /\ Cardinality(last.clients) = 3
    /\ ~panicked

\* The cells of the Reactor (ic, cc), as handles.
CellsOf(ic, cc) ==
    {Input(i) : i \in 0..(Len(ic) - 1)} \cup {Compute(c) : c \in 0..(Len(cc) - 1)}

\* The clients set of the cell x of the Reactor (ic, cc).
ClientsSet(x, ic, cc) ==
    IF x.kind = "Input" THEN ic[x.idx + 1].clients ELSE cc[x.idx + 1].clients

\* The compute cells of cc that list x among their dependencies.
Dependents(x, cc) ==
    {c \in 0..(Len(cc) - 1) : \E k \in 1..Len(cc[c + 1].deps) : cc[c + 1].deps[k] = x}

\* C18: after every operation compute cell C is in the clients set of cell X
\* exactly when X occurs in C's dependency list; a successful create_compute
\* puts the new cell into the clients set of each of its dependencies, compute
\* cells included; no operation takes an element out of a clients set or
\* changes the dependency list of a cell.
C18_ClientsMirrorDeps ==
    [][/\ \A x \in CellsOf(input_cells', compute_cells') :
            ClientsSet(x, input_cells', compute_cells') = Dependents(x, compute_cells')
       /\ \A x \in CellsOf(input_cells, compute_cells) :
            ClientsSet(x, input_cells, compute_cells)
                \subseteq ClientsSet(x, input_cells', compute_cells')
       /\ \A c \in 1..Len(compute_cells) :
            compute_cells'[c].deps = compute_cells[c].deps
       /\ (last'.op = "create_compute" /\ last'.ret.ok) =>
            \A k \in 1..Len(last'.deps) :
                last'.ret.id.idx
                    \in ClientsSet(last'.deps[k], input_cells', compute_cells')]_vars

\* create_compute returned a cell that depends on a compute cell and on an
\* input, and the new cell is a client of both.
C18_Witness ==
    /\ last.op = "create_compute" /\ last.ret.ok
    /\ Len(last.deps) = 2
    /\ last.deps[1].kind = "Compute" /\ last.deps[2].kind = "Input"
    /\ last.ret.id.idx \in compute_cells[last.deps[1].idx + 1].clients
    /\ last.ret.id.idx \in input_cells[last.deps[2].idx + 1].clients

\* C19: in every reachable state every dependency of the compute cell with
\* index i is an existing input cell or a compute cell with an index below i,
\* so the dependency graph has no cycle, and no evaluation has met a missing
\* dependency (the unwrap in ComputeCell::call has not failed).
C19_GraphIsAcyclic ==
    /\ ~panicked
    /\ \A c \in 1..Len(compute_cells) :
        \A k \in 1..Len(compute_cells[c].deps) :
            LET d == compute_cells[c].deps[k]
            IN  IF d.kind = "Input" THEN d.idx < Len(input_cells)
                ELSE d.idx < c - 1

\* value() was read of a compute cell that depends on a compute cell that
\* depends on a compute cell, and returned a value.
C19_Witness ==
    /\ last.op = "value" /\ last.id = Compute(2) /\ last.ret.some
    /\ Len(compute_cells) = 3
    /\ compute_cells[3].deps[1] = Compute(1)
    /\ compute_cells[2].deps[1] = Compute(0)
    /\ ~panicked

\* The order that visits the cells S by ascending index.
Ascending(S) == CHOOSE o \in Orders(S) : \A i, j \in 1..Cardinality(S) : i < j => o[i] < o[j]

\* The evaluation st ended as the Reactor with the compute cells cc did after
\* the invocations lg: the same cached value in every cell, every callback
\* invoked as often and with the same argument.
SameOutcome(st, cc, lg) ==
    \A c \in 1..Len(cc) :
        /\ st.cc[c].prev_val = cc[c].prev_val
        /\ \A h \in cc[c].callbacks :
            /\ Fired(st.log, c - 1, h) = Fired(lg, c - 1, h)
            /\ FiredWith(st.log, c - 1, h) = FiredWith(lg, c - 1, h)

\* C20: the outcome of a set_value call is the same for every order the
\* affected set is iterated in: whatever order the call took, it ends as the
\* call that visits the cells by ascending index from the same state does, with
\* the same cached value in every compute cell and the same callbacks invoked,
\* each as often and with the same argument; so any two orders agree.
C20_OrderIndependent ==
    [][(/\ last'.op = "set_value"
        /\ last'.old.some /\ last'.old.val # last'.arg)
       => /\ ~panicked'
          /\ \A st \in {set_value_calls(
                            Ascending(last'.clients), 1,
                            Start([input_cells EXCEPT ![last'.id + 1].value = last'.arg],
                                  compute_cells))} :
                SameOutcome(st, compute_cells', log')]_vars

\* set_value changed an input with three affected cells (six orders) and
\* invoked the callback of one that depends on another of them.
C20_Witness ==
    /\ Changed
    /\ Cardinality(last.clients) = 3
    /\ \E n \in DOMAIN log :
        \E k \in 1..Len(compute_cells[log[n].cell + 1].deps) :
            /\ compute_cells[log[n].cell + 1].deps[k].kind = "Compute"
            /\ compute_cells[log[n].cell + 1].deps[k].idx \in last.clients

RECURSIVE DependsOn(_, _, _)
\* Compute cell c of cc depends on input cell i, directly or through other
\* compute cells, by the dependency lists.
DependsOn(cc, c, i) ==
    \E k \in 1..Len(cc[c + 1].deps) :
        LET d == cc[c + 1].deps[k]
        IN  \/ d = Input(i)
            \/ d.kind = "Compute" /\ DependsOn(cc, d.idx, i)

\* C21: set_value(I, v) leaves every other input's value as it was, leaves the
\* cached value of every compute cell that does not depend on I (directly or
\* through other cells) as it was and invokes none of its callbacks, also when
\* the cell is read again as a dependency of an affected cell, and changes no
\* dependency list, clients set, function or callback registry.
C21_SetValueFrame ==
    [][last'.op = "set_value" =>
        /\ Len(input_cells') = Len(input_cells)
        /\ \A i \in 1..Len(input_cells) :
            /\ input_cells'[i].clients = input_cells[i].clients
            /\ i - 1 # last'.id => input_cells'[i].value = input_cells[i].value
        /\ Len(compute_cells') = Len(compute_cells)
        /\ \A c \in 1..Len(compute_cells) :
            /\ compute_cells'[c] =
                [compute_cells[c] EXCEPT !.prev_val = compute_cells'[c].prev_val]
            /\ ~DependsOn(compute_cells, c - 1, last'.id) =>
                /\ compute_cells'[c].prev_val = compute_cells[c].prev_val
                /\ \A n \in DOMAIN log' : log'[n].cell # c - 1]_vars

\* set_value changed an input; a compute cell with a callback that does not
\* depend on it was evaluated as a dependency of an affected cell, and its
\* callback was not invoked.
C21_Witness ==
    /\ Changed
    /\ Len(input_cells) = 2
    /\ \E c \in last.evaluated \ last.clients :
        /\ ~DependsOn(compute_cells, c, last.id)
        /\ compute_cells[c + 1].callbacks # {}
        /\ \A n \in DOMAIN log : log[n].cell # c

\* C22: in one set_value pass every evaluation of a stored compute cell yields
\* the value the cell has when the pass is over (no evaluation sees a
\* transient value), and so the cached value of a cell is set at most once in
\* the pass: exactly once if the cell's value changed, never otherwise.
C22_NoTransientValue ==
    [][(/\ last'.op = "set_value"
        /\ last'.old.some /\ last'.old.val # last'.arg)
       => /\ \A y \in last'.yielded :
                /\ y[2] = CellValue(y[1], input_cells', compute_cells')
                /\ Some(y[2]) = compute_cells'[y[1] + 1].prev_val
          /\ last'.rewritten = {}
          /\ last'.written =
                {c \in 0..(Len(compute_cells) - 1) :
                    compute_cells'[c + 1].prev_val # compute_cells[c + 1].prev_val}]_vars

\* set_value changed the input of the cell B of a chain A -> B -> C: B was
\* evaluated on its own and again as the dependency of C, both cells changed,
\* each was evaluated to one value only and its cache set once.
C22_Witness ==
    /\ Changed /\ last.id = 0
    /\ Len(compute_cells) >= 2
    /\ compute_cells[1].deps = <<Input(0)>>
    /\ compute_cells[2].deps = <<Compute(0)>>
    /\ {0, 1} \subseteq last.clients
    /\ {0, 1} \subseteq last.written
    /\ Cardinality({y \in last.yielded : y[1] \in {0, 1}}) = 2
    /\ last.rewritten = {}

\* C23: in one set_value pass callbacks are invoked in dependency order. When
\* the callbacks of compute cell C are invoked, every compute cell upstream of
\* C holds the cached value it has when the pass is over, and the callbacks of
\* every upstream cell whose value changed have been invoked before; no cell's
\* callbacks are invoked after those of a cell downstream of it.
C23_DependencyOrder ==
    [][(/\ last'.op = "set_value"
        /\ last'.old.some /\ last'.old.val # last'.arg)
       => /\ \A f \in last'.atfire : f[3] = compute_cells'[f[2] + 1].prev_val
          /\ \A n \in DOMAIN log' :
                \A u \in Upstream(compute_cells, log'[n].cell) :
                    /\ \A m \in DOMAIN log' : log'[m].cell = u => m < n
                    /\ (/\ compute_cells[u + 1].callbacks # {}
                        /\ compute_cells'[u + 1].prev_val # compute_cells[u + 1].prev_val)
                       => \E m \in 1..(n - 1) : log'[m].cell = u]_vars

\* set_value changed the input of the chain A -> B -> C with a callback on B
\* and one on C: B's was invoked first, and when C's was invoked B had its
\* final cached value.
C23_Witness ==
    /\ Changed /\ last.id = 0
    /\ Len(compute_cells) = 2
    /\ compute_cells[1].deps = <<Input(0)>>
    /\ compute_cells[2].deps = <<Compute(0)>>
    /\ Len(log) = 2 /\ log[1].cell = 0 /\ log[2].cell = 1
    /\ <<1, 0, compute_cells[1].prev_val>> \in last.atfire

====
